---- MODULE Spec2Model ----
(***************************************************************************)
(* A model of the Raft node of tinykv (src/raft/raft.go): the Raft struct, *)
(* tick, Step and the helpers Step calls.  A node is a record holding the  *)
(* fields of the Raft struct; every handler is an operator from a node     *)
(* record (and the message) to the node record after the call, with the    *)
(* messages it appended to r.msgs.                                         *)
(*                                                                         *)
(* Fields of the struct that no handler reads (Lead, RaftLog.stabled,      *)
(* Progress.Next, leadTransferee, PendingConfIndex) are left out.          *)
(* raft/log.go is not among the sources: RaftLog (LastIndex, Term) is      *)
(* modelled from its description and from the way raft.go uses it          *)
(* (entries[i] is the entry of index i+1, Term is 0 for an absent index).  *)
(***************************************************************************)
EXTENDS Integers, Sequences, FiniteSets, Bags, TLC

VARIABLES nodes, network, elected

vars == <<nodes, network, elected>>

-----------------------------------------------------------------------------
(* Bounds of the model *)

NumNodes == 2
MaxTerm == 1
MaxNodeTerm == 3
MaxSingleTerm == 3
MaxSingleLog == 4
NumRepl == 3
MaxReplLog == 3
MaxLog == 2
MaxVoters == 5
MaxMatch == 4
NumData == 1
ElectionTick == 2
HeartbeatTick == 1

(* Program constants *)

None == 0

(* The values of Go's error that Step can return *)
Nil == "nil"
ErrProposalDropped == "raft proposal dropped"

StateFollower == "StateFollower"
StateCandidate == "StateCandidate"
StateLeader == "StateLeader"

MsgHup == "MsgHup"
MsgBeat == "MsgBeat"
MsgPropose == "MsgPropose"
MsgAppend == "MsgAppend"
MsgAppendResponse == "MsgAppendResponse"
MsgRequestVote == "MsgRequestVote"
MsgRequestVoteResponse == "MsgRequestVoteResponse"
MsgHeartbeat == "MsgHeartbeat"
MsgHeartbeatResponse == "MsgHeartbeatResponse"

Node == 1..NumNodes

(* Payloads: NoData is the empty payload, which the no-op entry carries *)
NoData == 0
Data == 0..NumData

-----------------------------------------------------------------------------
(* Helpers *)

Range(s) == {s[i] : i \in DOMAIN s}

Min(a, b) == IF a <= b THEN a ELSE b

(* The ids of S in ascending order: the order in which the model walks a   *)
(* map of peers (Go walks it in an unspecified order; the transport        *)
(* delivers the messages in any order anyway).                             *)
RECURSIVE IdSeq(_)
IdSeq(S) ==
    IF S = {} THEN <<>>
    ELSE LET x == CHOOSE x \in S : \A y \in S : x <= y
         IN  <<x>> \o IdSeq(S \ {x})

(* pb.Message: every field is present, zero when the sender leaves it out. *)
Message(type, to, from, term) ==
    [MsgType |-> type, To |-> to, From |-> from, Term |-> term,
     LogTerm |-> 0, Index |-> 0, Entries |-> <<>>, Commit |-> 0,
     Reject |-> FALSE]

(* pb.Entry *)
Entry(term, index, data) == [Term |-> term, Index |-> index, Data |-> data]

-----------------------------------------------------------------------------
(* RaftLog *)

LastIndex(r) == Len(r.entries)

RaftLogTerm(r, i) ==
    IF i \in 1..Len(r.entries) THEN r.entries[i].Term ELSE 0

-----------------------------------------------------------------------------
(* Construction *)

initTimer(r, rnd) ==
    [r EXCEPT !.electionElapsed = 0,
              !.heartbeatElapsed = 0,
              !.currentElectionTimeout = r.electionTimeout + rnd]

(* Storage: the durable state the node is constructed from: the hard      *)
(* state (term, vote, committed) and the entries of the log.               *)
Storage(term, vote, commit, entries) ==
    [hardState |-> [Term |-> term, Vote |-> vote, Commit |-> commit],
     entries |-> entries]

(* The storage of a first start *)
EmptyStorage == Storage(0, None, 0, <<>>)

(* Config, with the tick counts of the model *)
Config(id, peers, storage) ==
    [ID |-> id, peers |-> peers, ElectionTick |-> ElectionTick,
     HeartbeatTick |-> HeartbeatTick, Storage |-> storage]

(* newLog: the log recovered from the storage, with its committed index *)
newLog(storage) ==
    [entries |-> storage.entries, committed |-> storage.hardState.Commit]

(* newRaft: c.Storage is read by newLog alone; Term is set to 0 and Vote   *)
(* is left at Go's zero value, None.                                       *)
newRaft(c, rnd) ==
    LET log == newLog(c.Storage)
    IN  initTimer([id |-> c.ID,
                   Term |-> 0,
                   Vote |-> None,
                   State |-> StateFollower,
                   votes |-> {},
                   entries |-> log.entries,
                   committed |-> log.committed,
                   Prs |-> [p \in c.peers |-> [Match |-> 0]],
                   msgs |-> <<>>,
                   electionTimeout |-> c.ElectionTick,
                   heartbeatTimeout |-> c.HeartbeatTick,
                   currentElectionTimeout |-> 0,
                   heartbeatElapsed |-> 0,
                   electionElapsed |-> 0], rnd)

send(r, m) == [r EXCEPT !.msgs = Append(r.msgs, m)]

-----------------------------------------------------------------------------
(* Outbound messages *)

sendAppend(r, to) ==
    LET ents == SubSeq(r.entries, r.Prs[to].Match + 1, Len(r.entries))
    IN  IF Len(ents) = 0
        THEN r
        ELSE send(r, [Message(MsgAppend, to, r.id, r.Term) EXCEPT
                        !.LogTerm = RaftLogTerm(r, r.Prs[to].Match),
                        !.Index = r.Prs[to].Match,
                        !.Entries = ents,
                        !.Commit = r.committed])

(* sendAppend to every peer of the sequence ps, in that order *)
RECURSIVE bcastAppend(_, _)
bcastAppend(r, ps) ==
    IF ps = <<>> THEN r ELSE bcastAppend(sendAppend(r, Head(ps)), Tail(ps))

sendRequestVote(r, to) ==
    LET index == LastIndex(r)
    IN  send(r, [Message(MsgRequestVote, to, r.id, r.Term) EXCEPT
                   !.LogTerm = RaftLogTerm(r, index),
                   !.Index = index])

RECURSIVE bcastRequestVote(_, _)
bcastRequestVote(r, ps) ==
    IF ps = <<>> THEN r
    ELSE bcastRequestVote(sendRequestVote(r, Head(ps)), Tail(ps))

sendRequestVoteResponse(r, to, reject) ==
    send(r, [Message(MsgRequestVoteResponse, to, r.id, r.Term) EXCEPT
               !.Reject = reject])

-----------------------------------------------------------------------------
(* Role transitions *)

becomeFollower(r, term, lead, rnd) ==
    initTimer([r EXCEPT !.State = StateFollower, !.Term = term], rnd)

(* Step, case MsgPropose, for a message whose term is not above r.Term *)
RECURSIVE appendProposed(_, _)
appendProposed(r, ents) ==
    IF ents = <<>> THEN r
    ELSE appendProposed(
            [r EXCEPT !.entries = Append(r.entries,
                          Entry(r.Term, LastIndex(r) + 1, Head(ents).Data))],
            Tail(ents))

(* Case MsgPropose without the commit of the cluster of one voter *)
stepProposeNoCommit(r, m) ==
    IF r.State # StateLeader
    THEN r
    ELSE bcastAppend(appendProposed(r, m.Entries),
                     IdSeq(DOMAIN r.Prs \ {r.id}))

stepPropose(r, m) ==
    IF r.State # StateLeader
    THEN r
    ELSE LET r1 == appendProposed(r, m.Entries)
             r2 == bcastAppend(r1, IdSeq(DOMAIN r.Prs \ {r.id}))
         IN  IF Cardinality(DOMAIN r.Prs) = 1
             THEN [r2 EXCEPT !.committed = LastIndex(r2)]
             ELSE r2

becomeLeader(r, rnd) ==
    LET r1 == [r EXCEPT !.State = StateLeader]
        noop == Entry(r1.Term, LastIndex(r1) + 1, NoData)
        r2 == stepPropose(r1, [Message(MsgPropose, r1.id, r1.id, r1.Term)
                                 EXCEPT !.Entries = <<noop>>])
    IN  initTimer(r2, rnd)

VotedFrom(r, from, rnd) ==
    LET r1 == [r EXCEPT !.votes = r.votes \cup {from}]
    IN  IF Cardinality(r1.votes) > Cardinality(DOMAIN r1.Prs) \div 2
        THEN becomeLeader(r1, rnd)
        ELSE r1

becomeCandidate(r, rnd) ==
    LET r1 == [r EXCEPT !.State = StateCandidate,
                        !.Term = r.Term + 1,
                        !.votes = {}]
    IN  initTimer(VotedFrom(r1, r1.id, rnd), rnd)

-----------------------------------------------------------------------------
(* Step, one operator per case of its switch.  Each takes the node after   *)
(* the term check at the head of Step.                                     *)

stepHup(r, rnd) ==
    IF r.State = StateLeader
    THEN r
    ELSE LET r1 == becomeCandidate(r, rnd)
         IN  bcastRequestVote(r1, IdSeq(DOMAIN r1.Prs \ {r1.id}))

stepHeartbeat(r, m, rnd) ==
    IF r.Term <= m.Term THEN becomeFollower(r, m.Term, m.From, rnd) ELSE r

(* sendHeartbeat: the heartbeat addressed to the node itself is stepped at *)
(* once (its term equals r.Term, so Step's term check does nothing), the   *)
(* others are queued.                                                      *)
sendHeartbeat(r, to, rnd) ==
    LET msg == Message(MsgHeartbeat, to, r.id, r.Term)
    IN  IF to = r.id THEN stepHeartbeat(r, msg, rnd) ELSE send(r, msg)

RECURSIVE bcastHeartbeat(_, _, _)
bcastHeartbeat(r, ps, rnd) ==
    IF ps = <<>> THEN r
    ELSE bcastHeartbeat(sendHeartbeat(r, Head(ps), rnd), Tail(ps), rnd)

stepBeat(r, rnd) ==
    IF r.State # StateLeader
    THEN r
    ELSE bcastHeartbeat(r, IdSeq(DOMAIN r.Prs), rnd)

(* The loop over m.Entries of case MsgAppend *)
RECURSIVE appendEntries(_, _)
appendEntries(r, ents) ==
    IF ents = <<>> THEN r
    ELSE LET e == Head(ents)
             logTerm == RaftLogTerm(r, e.Index)
         IN  IF logTerm # 0 /\ logTerm < e.Term
             THEN appendEntries(
                    [r EXCEPT !.entries =
                        Append(SubSeq(r.entries, 1, e.Index - 1), e)],
                    Tail(ents))
             ELSE IF logTerm # 0 /\ logTerm = e.Term
             THEN appendEntries(r, Tail(ents))
             ELSE appendEntries([r EXCEPT !.entries = Append(r.entries, e)],
                                Tail(ents))

stepAppend(r, m, rnd) ==
    LET r1 == IF r.Term <= m.Term
              THEN becomeFollower(r, m.Term, m.From, rnd)
              ELSE r
    IN  IF RaftLogTerm(r1, m.Index) # m.LogTerm
        THEN send(r1, [Message(MsgAppendResponse, m.From, m.To, r1.Term)
                         EXCEPT !.Reject = TRUE])
        ELSE LET r2 == appendEntries(r1, m.Entries)
                 r3 == [r2 EXCEPT !.committed = m.Commit]
             IN  send(r3, Message(MsgAppendResponse, m.From, m.To, r3.Term))

(* sort.Sort(match): the Match values of r.Prs in ascending order *)
sortedMatch(r) ==
    LET ids == IdSeq(DOMAIN r.Prs)
    IN  SortSeq([i \in 1..Len(ids) |-> r.Prs[ids[i]].Match],
                LAMBDA a, b : a < b)

(* The lower median of the sorted values instead *)
quorumMatchLowerMedian(r) ==
    sortedMatch(r)[(Cardinality(DOMAIN r.Prs) - 1) \div 2 + 1]

(* match[(len(r.Prs) + 1) / 2], Go's index counting from 0 *)
quorumMatch(r) == sortedMatch(r)[(Cardinality(DOMAIN r.Prs) + 1) \div 2 + 1]

(* The condition under which case MsgAppendResponse recomputes committed *)
resort(r, m) ==
    r.Prs[m.From].Match <= r.committed /\ m.Index > r.committed

stepAppendResponse(r, m) ==
    IF r.State # StateLeader
    THEN r
    ELSE LET r1 == [r EXCEPT !.Prs[m.From].Match = m.Index]
         IN  IF resort(r, m)
             THEN [r1 EXCEPT !.committed = quorumMatch(r1)]
             ELSE r1

(* Case MsgRequestVote with a comparison of the last terms alone *)
stepRequestVoteTermOnly(r, m) ==
    LET logTerm == RaftLogTerm(r, LastIndex(r))
    IN  IF logTerm > m.LogTerm
        THEN sendRequestVoteResponse(r, m.From, TRUE)
        ELSE LET r1 == IF r.State = StateLeader
                       THEN [r EXCEPT !.State = StateFollower]
                       ELSE r
             IN  IF r1.Vote = None
                 THEN sendRequestVoteResponse([r1 EXCEPT !.Vote = m.From],
                                              m.From, FALSE)
                 ELSE IF r1.Vote = m.From
                 THEN sendRequestVoteResponse(r1, m.From, FALSE)
                 ELSE sendRequestVoteResponse(r1, m.From, TRUE)

stepRequestVote(r, m) ==
    LET index == LastIndex(r)
        logTerm == RaftLogTerm(r, index)
    IN  IF logTerm > m.LogTerm \/ (logTerm = m.LogTerm /\ index > m.Index)
        THEN sendRequestVoteResponse(r, m.From, TRUE)
        ELSE LET r1 == IF r.State = StateLeader
                       THEN [r EXCEPT !.State = StateFollower]
                       ELSE r
             IN  IF r1.Vote = None
                 THEN sendRequestVoteResponse([r1 EXCEPT !.Vote = m.From],
                                              m.From, FALSE)
                 ELSE IF r1.Vote = m.From
                 THEN sendRequestVoteResponse(r1, m.From, FALSE)
                 ELSE sendRequestVoteResponse(r1, m.From, TRUE)

stepRequestVoteResponse(r, m, rnd) ==
    IF ~m.Reject /\ m.From \notin r.votes
    THEN VotedFrom(r, m.From, rnd)
    ELSE r

(* A term check that takes the term of any message that differs instead *)
termCheckAnyTerm(r, m, rnd) ==
    IF r.Term # m.Term
    THEN [becomeFollower(r, m.Term, m.From, rnd) EXCEPT !.Vote = None]
    ELSE r

(* The term check at the head of Step *)
termCheck(r, m, rnd) ==
    IF r.Term < m.Term
    THEN [becomeFollower(r, m.Term, m.From, rnd) EXCEPT !.Vote = None]
    ELSE r

Step(r, m, rnd) ==
    LET r1 == termCheck(r, m, rnd)
    IN  CASE m.MsgType = MsgHup -> stepHup(r1, rnd)
          [] m.MsgType = MsgBeat -> stepBeat(r1, rnd)
          [] m.MsgType = MsgPropose -> stepPropose(r1, m)
          [] m.MsgType = MsgAppend -> stepAppend(r1, m, rnd)
          [] m.MsgType = MsgAppendResponse -> stepAppendResponse(r1, m)
          [] m.MsgType = MsgRequestVote -> stepRequestVote(r1, m)
          [] m.MsgType = MsgRequestVoteResponse ->
                stepRequestVoteResponse(r1, m, rnd)
          [] m.MsgType = MsgHeartbeat -> stepHeartbeat(r1, m, rnd)
          [] OTHER -> r1

(* What Step returns to its caller: every return statement of Step,       *)
(* the one of a proposal that a node other than the Leader drops           *)
(* included, returns nil.                                                  *)
StepReturn(r, m, rnd) ==
    LET r1 == termCheck(r, m, rnd)
    IN  CASE m.MsgType = MsgPropose /\ r1.State # StateLeader -> Nil
          [] OTHER -> Nil

(* tick with an election timeout that fires one tick late *)
tickLate(r, rnd) ==
    IF r.State = StateLeader
    THEN LET r1 == [r EXCEPT !.heartbeatElapsed = r.heartbeatElapsed + 1]
         IN  IF r1.heartbeatElapsed >= r1.heartbeatTimeout
             THEN Step([r1 EXCEPT !.heartbeatElapsed = 0],
                       Message(MsgBeat, r1.id, r1.id, r1.Term), rnd)
             ELSE r1
    ELSE LET r1 == [r EXCEPT !.electionElapsed = r.electionElapsed + 1]
         IN  IF r1.electionElapsed > r1.currentElectionTimeout
             THEN Step(r1, Message(MsgHup, r1.id, r1.id, 0), rnd)
             ELSE r1

tick(r, rnd) ==
    IF r.State = StateLeader
    THEN LET r1 == [r EXCEPT !.heartbeatElapsed = r.heartbeatElapsed + 1]
         IN  IF r1.heartbeatElapsed >= r1.heartbeatTimeout
             THEN Step([r1 EXCEPT !.heartbeatElapsed = 0],
                       Message(MsgBeat, r1.id, r1.id, r1.Term), rnd)
             ELSE r1
    ELSE LET r1 == [r EXCEPT !.electionElapsed = r.electionElapsed + 1]
         IN  IF r1.electionElapsed >= r1.currentElectionTimeout
             THEN Step(r1, Message(MsgHup, r1.id, r1.id, 0), rnd)
             ELSE r1

-----------------------------------------------------------------------------
(* The cluster: NumNodes nodes, each constructed with all of them as peers, *)
(* and the messages in flight.  The transport takes r.msgs after every     *)
(* call; a message in flight stays in flight, so it may be delivered late, *)
(* more than once, out of order or never.                                  *)

Rnd == 0..ElectionTick - 1

Bounded(r, maxTerm) == r.Term <= maxTerm /\ Len(r.entries) <= MaxLog

(* Every (node, term) that held the Leader role, with the role of n after  *)
(* a call that left it as r.                                               *)
Elected(n, r) ==
    IF r.State = StateLeader THEN elected \cup {<<n, r.Term>>} ELSE elected

(* The state after a call on node n that left it as r: the transport has   *)
(* taken r.msgs.                                                           *)
Ready(n, r) ==
    /\ Bounded(r, MaxTerm)
    /\ nodes' = [nodes EXCEPT ![n] = [r EXCEPT !.msgs = <<>>]]
    /\ network' = network \cup Range(r.msgs)
    /\ elected' = Elected(n, r)

Init ==
    /\ nodes \in {[n \in Node |-> newRaft(Config(n, Node, EmptyStorage), t[n])] : t \in [Node -> Rnd]}
    /\ network = {}
    /\ elected = {}

ProposeMsg(n, d) ==
    [Message(MsgPropose, n, n, 0) EXCEPT !.Entries = <<Entry(0, 0, d)>>]

Tick(n) ==
    \E rnd \in Rnd : Ready(n, tick(nodes[n], rnd))

Propose(n, d) ==
    Ready(n, Step(nodes[n], ProposeMsg(n, d), 0))

Deliver(m) ==
    \E rnd \in Rnd : Ready(m.To, Step(nodes[m.To], m, rnd))

Next ==
    \/ \E n \in Node : Tick(n)
    \/ \E n \in Node, d \in Data : Propose(n, d)
    \/ \E m \in network : Deliver(m)

Spec == Init /\ [][Next]_vars

-----------------------------------------------------------------------------
(* One node seen from its transport: node 1 of the cluster.  Its peers are *)
(* the environment: any wire message a peer could send may be handed to    *)
(* Step, in any order and any number of times.  The messages the node      *)
(* queues leave the model.                                                 *)

Peers == Node

(* The entries a message can carry after prevIndex: consecutive indices,   *)
(* terms that do not decrease, between 1 and the sender's term, and a      *)
(* payload that is not empty.                                              *)
WireEntries(prevIndex, prevTerm, term) ==
    UNION {
      {s \in [1..k -> [Term : 1..term, Index : 1..MaxLog,
                      Data : Data \ {NoData}]] :
         /\ \A i \in 1..k : s[i].Index = prevIndex + i
         /\ \A i \in 1..k : s[i].Term >= prevTerm
         /\ \A i \in 1..k - 1 : s[i].Term <= s[i + 1].Term} :
      k \in 0..MaxLog - prevIndex}

Wire(to) ==
    LET from == Peers \ {to}
        terms == 1..MaxNodeTerm
    IN  UNION {
          {[Message(MsgAppend, to, f, t) EXCEPT
              !.Index = i, !.LogTerm = lt, !.Entries = es, !.Commit = c] :
             es \in WireEntries(i, lt, t), c \in 0..MaxLog} :
          f \in from, t \in terms, i \in 0..MaxLog,
          lt \in 0..MaxNodeTerm}
        \cup
        {[Message(MsgAppendResponse, to, f, t) EXCEPT
            !.Index = i, !.Reject = b] :
           f \in from, t \in terms, i \in 0..MaxLog, b \in BOOLEAN}
        \cup
        {[Message(MsgRequestVote, to, f, t) EXCEPT
            !.Index = i, !.LogTerm = lt] :
           f \in from, t \in terms, i \in 0..MaxLog, lt \in 0..MaxNodeTerm}
        \cup
        {[Message(MsgRequestVoteResponse, to, f, t) EXCEPT !.Reject = b] :
           f \in from, t \in terms, b \in BOOLEAN}
        \cup
        {Message(ty, to, f, t) :
           ty \in {MsgHeartbeat, MsgHeartbeatResponse},
           f \in from, t \in terms}

(* A message a peer can have sent: in an AppendEntries or a RequestVote the *)
(* term of the entry at Index is 0 exactly when Index is 0, and is at most *)
(* the sender's term.                                                      *)
WellFormed(m) ==
    m.MsgType \in {MsgAppend, MsgRequestVote}
    => /\ (m.LogTerm = 0) <=> (m.Index = 0)
       /\ m.LogTerm <= m.Term

(* The wire messages that may reach node 1 *)
Inbound == {m \in Wire(1) : WellFormed(m)}

ReadyNode(n, r) ==
    /\ Bounded(r, MaxNodeTerm)
    /\ nodes' = [nodes EXCEPT ![n] = [r EXCEPT !.msgs = <<>>]]
    /\ UNCHANGED <<network, elected>>

InitNode ==
    /\ nodes \in {[n \in {1} |-> newRaft(Config(1, Peers, EmptyStorage), rnd)] : rnd \in Rnd}
    /\ network = {}
    /\ elected = {}

TickNode ==
    \E rnd \in Rnd : ReadyNode(1, tick(nodes[1], rnd))

ProposeNode(d) ==
    ReadyNode(1, Step(nodes[1], ProposeMsg(1, d), 0))

Receive(m) ==
    \E rnd \in Rnd : ReadyNode(1, Step(nodes[1], m, rnd))

NextNode ==
    \/ TickNode
    \/ \E d \in Data : ProposeNode(d)
    \/ \E m \in Inbound : Receive(m)

SpecNode == InitNode /\ [][NextNode]_vars

-----------------------------------------------------------------------------
(* One node with restarts: SpecNode, and the node may at any time be       *)
(* constructed again from its storage.  The caller has made every change   *)
(* durable, so the storage holds the node's term, vote, committed index    *)
(* and log as they were after the last call.                               *)

StorageOf(r) == Storage(r.Term, r.Vote, r.committed, r.entries)

Restarted(r, rnd) == newRaft(Config(r.id, DOMAIN r.Prs, StorageOf(r)), rnd)

RestartNode ==
    \E rnd \in Rnd : ReadyNode(1, Restarted(nodes[1], rnd))

NextRestart ==
    \/ NextNode
    \/ RestartNode

SpecRestart == InitNode /\ [][NextRestart]_vars

-----------------------------------------------------------------------------
(* Replication in a cluster of NumRepl nodes with one Leader: node 1 times *)
(* out first and stands for election; no other timeout fires, so the node  *)
(* that wins stays Leader.  The messages in flight are a bag: every        *)
(* message a node queues is delivered exactly once, in any order, and no   *)
(* other message is handed to a node.  The client proposes payloads that   *)
(* are not empty, to the Leader.                                           *)

Repl == 1..NumRepl

RECURSIVE SeqToBag(_)
SeqToBag(s) ==
    IF s = <<>> THEN EmptyBag ELSE SetToBag({Head(s)}) (+) SeqToBag(Tail(s))

(* The state after a call on node n that left it as r, which took the     *)
(* message of the bag taken (none: EmptyBag).                              *)
ReadyRepl(n, r, taken) ==
    /\ Len(r.entries) <= MaxReplLog
    /\ nodes' = [nodes EXCEPT ![n] = [r EXCEPT !.msgs = <<>>]]
    /\ network' = (network (-) taken) (+) SeqToBag(r.msgs)
    /\ UNCHANGED elected

InitRepl ==
    /\ nodes = [n \in Repl |-> newRaft(Config(n, Repl, EmptyStorage), 0)]
    /\ network = EmptyBag
    /\ elected = {}

(* The election timeout of node 1: the tick that raises MsgHup *)
HupRepl ==
    /\ nodes[1].Term = 0
    /\ ReadyRepl(1, Step(nodes[1], Message(MsgHup, 1, 1, 0), 0), EmptyBag)

ProposeRepl(d) ==
    /\ nodes[1].State = StateLeader
    /\ ReadyRepl(1, Step(nodes[1], ProposeMsg(1, d), 0), EmptyBag)

DeliverRepl(m) ==
    ReadyRepl(m.To, Step(nodes[m.To], m, 0), SetToBag({m}))

NextRepl ==
    \/ HupRepl
    \/ \E d \in Data \ {NoData} : ProposeRepl(d)
    \/ \E m \in BagToSet(network) : DeliverRepl(m)

SpecRepl == InitRepl /\ [][NextRepl]_vars

-----------------------------------------------------------------------------
(* A cluster of one voter: node 1 with itself as its only peer.  No wire   *)
(* message reaches it; it is driven by tick and by the client's proposals. *)

ReadySingle(r) ==
    /\ r.Term <= MaxSingleTerm /\ Len(r.entries) <= MaxSingleLog
    /\ nodes' = [nodes EXCEPT ![1] = [r EXCEPT !.msgs = <<>>]]
    /\ UNCHANGED <<network, elected>>

InitSingle ==
    /\ nodes \in {[n \in {1} |-> newRaft(Config(1, {1}, EmptyStorage), rnd)] : rnd \in Rnd}
    /\ network = {}
    /\ elected = {}

TickSingle ==
    \E rnd \in Rnd : ReadySingle(tick(nodes[1], rnd))

ProposeSingle(d) ==
    ReadySingle(Step(nodes[1], ProposeMsg(1, d), 0))

NextSingle ==
    \/ TickSingle
    \/ \E d \in Data : ProposeSingle(d)

SpecSingle == InitSingle /\ [][NextSingle]_vars

-----------------------------------------------------------------------------
(* Properties of the cluster (Spec)                                        *)

(* C1: election safety: for every term, at most one node ever holds the    *)
(* Leader role with that term.                                             *)
C1_ElectionSafety ==
    \A a \in elected, b \in elected : a[2] = b[2] => a[1] = b[1]

(* Whether the call that took a node to r answered with a vote granted *)
Grants(r) ==
    \E i \in DOMAIN r.msgs :
        r.msgs[i].MsgType = MsgRequestVoteResponse /\ ~r.msgs[i].Reject

(* C2: at most one vote per term: a node that is Candidate in term T (it   *)
(* voted for itself) does not grant another node's RequestVote of term T,  *)
(* and a node that granted X in term T does not grant another Y in term T. *)
C2_OneVotePerTerm ==
    \A n \in DOMAIN nodes : \A m \in network :
        (m.MsgType = MsgRequestVote /\ m.To = n /\ m.From # n
         /\ m.Term = nodes[n].Term)
        => /\ nodes[n].State = StateCandidate
                => ~Grants(Step(nodes[n], m, 0))
           /\ (\E g \in network :
                  /\ g.MsgType = MsgRequestVoteResponse /\ ~g.Reject
                  /\ g.From = n /\ g.Term = m.Term /\ g.To # m.From)
                => ~Grants(Step(nodes[n], m, 0))

(* The entries of a log with an index of at most i, in log order *)
UpTo(log, i) == SelectSeq(log, LAMBDA e : e.Index <= i)

(* C7: log matching: if two logs hold an entry with the same index and the *)
(* same term, those entries and all entries before them are identical.     *)
C7_LogMatching ==
    \A a \in DOMAIN nodes, b \in DOMAIN nodes :
        \A i \in DOMAIN nodes[a].entries, j \in DOMAIN nodes[b].entries :
            LET ea == nodes[a].entries[i]
                eb == nodes[b].entries[j]
            IN  (ea.Index = eb.Index /\ ea.Term = eb.Term)
                => UpTo(nodes[a].entries, ea.Index)
                     = UpTo(nodes[b].entries, eb.Index)

(* C16: a Leader survives its own heartbeat timeout: the tick that reaches *)
(* the heartbeat interval leaves the node Leader with term, vote and log   *)
(* unchanged and heartbeatElapsed 0, and queues exactly one Heartbeat of   *)
(* its term for every other peer; and a Leader leaves the Leader role only *)
(* on a message whose term is above its own.                               *)
C16_LeaderSurvivesBeat ==
    \A n \in DOMAIN nodes : \A rnd \in Rnd :
        LET r == nodes[n]
            t == tick(r, rnd)
        IN  r.State = StateLeader
            => /\ r.heartbeatElapsed + 1 >= r.heartbeatTimeout
                    => /\ t.State = StateLeader
                       /\ t.Term = r.Term
                       /\ t.Vote = r.Vote
                       /\ t.entries = r.entries
                       /\ t.heartbeatElapsed = 0
                       /\ Len(t.msgs) = Cardinality(DOMAIN r.Prs) - 1
                       /\ \A p \in DOMAIN r.Prs \ {r.id} :
                             \E i \in DOMAIN t.msgs :
                                 t.msgs[i]
                                   = Message(MsgHeartbeat, p, r.id, r.Term)
               /\ \A m \in network :
                     (m.To = n /\ Step(r, m, rnd).State # StateLeader)
                     => m.Term > r.Term

-----------------------------------------------------------------------------
(* Properties of one node under any sequence of calls (SpecNode)           *)

(* C3: commit monotonicity: no call lowers a node's committed index.       *)
C3_CommitMonotonic ==
    [][\A n \in DOMAIN nodes :
          nodes'[n].committed >= nodes[n].committed]_vars

(* C4: in every reachable state of every node, committed is at most the   *)
(* last log index: it is never set past the entries present in the log.    *)
C4_CommittedWithinLog ==
    \A n \in DOMAIN nodes : nodes[n].committed <= LastIndex(nodes[n])

(* C5: old-term non-commit: when a Leader advances committed on an         *)
(* AppendResponse (one that acknowledges an index the Leader has), the     *)
(* entry at the new committed index carries the Leader's current term.     *)
C5_OldTermNonCommit ==
    \A n \in DOMAIN nodes : \A m \in Inbound :
        LET r == nodes[n]
            r2 == Step(r, m, 0)
        IN  (/\ m.MsgType = MsgAppendResponse /\ m.To = n
             /\ r.State = StateLeader /\ r2.State = StateLeader
             /\ m.Index <= LastIndex(r)
             /\ r2.committed > r.committed)
            => RaftLogTerm(r2, r2.committed) = r2.Term

(* What voter p of Leader r has replicated: the Leader itself its whole    *)
(* log, a peer the match the Leader holds for it.                          *)
Replicated(r, p) == IF p = r.id THEN LastIndex(r) ELSE r.Prs[p].Match

(* The largest index that a majority of the voters have replicated *)
QuorumIndex(r) ==
    LET n == Cardinality(DOMAIN r.Prs)
        ok == {i \in 0..LastIndex(r) :
                 Cardinality({p \in DOMAIN r.Prs : Replicated(r, p) >= i})
                   >= n \div 2 + 1}
    IN  CHOOSE i \in ok : \A j \in ok : j <= i

(* Leader 1 of the voters 1..n, with last log index last and, for peer p,  *)
(* the match ms[p]; the Leader's own Progress is never written and stays 0. *)
LeaderOf(n, last, ms) ==
    [newRaft(Config(1, 1..n, EmptyStorage), 0) EXCEPT
       !.State = StateLeader, !.Term = 1,
       !.entries = [i \in 1..last |-> Entry(1, i, NoData)],
       !.Prs = [p \in 1..n |-> [Match |-> IF p = 1 THEN 0 ELSE ms[p]]]]

(* A Leader of five voters with last index 4 and peers at 0, 2, 2 and 4:   *)
(* the voters' match values are {0, 2, 2, 4, 4}.                           *)
FiveVoters == LeaderOf(5, 4, <<4, 0, 2, 2, 4>>)

(* For every cluster of 2..MaxVoters voters and all matches within the     *)
(* Leader's log, the value Step takes is the quorum index.                 *)
QuorumTable ==
    \A n \in 2..MaxVoters : \A last \in 0..MaxMatch :
        \A ms \in [1..n -> 0..last] :
            quorumMatch(LeaderOf(n, last, ms))
              = QuorumIndex(LeaderOf(n, last, ms))

(* A call on node n in which a Leader recomputes committed on the          *)
(* AppendResponse m, leaving the node as Step gives it.                    *)
Recomputes(n, m) ==
    /\ m.MsgType = MsgAppendResponse /\ m.To = n
    /\ nodes[n].State = StateLeader
    /\ Step(nodes[n], m, 0).State = StateLeader
    /\ resort(nodes[n], m)

IsPrefix(a, b) == Len(a) <= Len(b) /\ a = SubSeq(b, 1, Len(a))

(* C8: committed entries are durable: no call removes or changes an entry  *)
(* of the log at or below the committed index.                             *)
C8_CommittedDurable ==
    [][\A n \in DOMAIN nodes :
          LET c == Min(nodes[n].committed, LastIndex(nodes[n]))
          IN  IsPrefix(SubSeq(nodes[n].entries, 1, c), nodes'[n].entries)]_vars

(* C9: leader append-only: a call that leaves a Leader in the Leader role  *)
(* keeps every entry of its log in place; the log only grows at the end.   *)
C9_LeaderAppendOnly ==
    [][\A n \in DOMAIN nodes :
          (nodes[n].State = StateLeader /\ nodes'[n].State = StateLeader)
          => IsPrefix(nodes[n].entries, nodes'[n].entries)]_vars

(* C10: a RequestVote or AppendEntries with a term below the node's term   *)
(* is answered with a rejection, and leaves log, committed, vote and role  *)
(* as they were.                                                           *)
C10_StaleRejected ==
    \A n \in DOMAIN nodes : \A m \in Inbound : \A rnd \in Rnd :
        LET r == nodes[n]
            r2 == Step(r, m, rnd)
        IN  (m.MsgType \in {MsgRequestVote, MsgAppend} /\ m.To = n
             /\ m.Term < r.Term)
            => /\ Len(r2.msgs) = 1
               /\ r2.msgs[1].Reject
               /\ r2.msgs[1].To = m.From
               /\ r2.entries = r.entries
               /\ r2.committed = r.committed
               /\ r2.Vote = r.Vote
               /\ r2.State = r.State

(* The messages a call of Step on node n can be given: the wire messages   *)
(* and the proposals of the client.                                        *)
Calls(n) == {m \in Inbound : m.To = n} \cup {ProposeMsg(n, d) : d \in Data}

(* C11: term monotonicity: no call lowers a node's term; Step changes it   *)
(* only to the term of a message that carries a higher one, and tick       *)
(* changes it only by adding exactly 1, when the election timeout makes    *)
(* the node Candidate.                                                     *)
C11_TermMonotonic ==
    \A n \in DOMAIN nodes : \A rnd \in Rnd :
        LET r == nodes[n]
            t == tick(r, rnd)
        IN  /\ \A m \in Calls(n) :
                  LET r2 == Step(r, m, rnd)
                  IN  /\ r2.Term >= r.Term
                      /\ r2.Term # r.Term
                            => (m.Term > r.Term /\ r2.Term = m.Term)
            /\ t.Term >= r.Term
            /\ t.Term # r.Term
                  => /\ t.Term = r.Term + 1
                     /\ r.State # StateLeader
                     /\ t.State = StateCandidate
            /\ (r.State # StateLeader
                 /\ r.electionElapsed + 1 >= r.currentElectionTimeout)
                  => t.Term = r.Term + 1

(* C11, witness: a Candidate of a term it has reached, about to time out   *)
(* again (tick adds 1), for which a message of a higher term exists (Step  *)
(* takes that term).                                                       *)
C11_Witness ==
    \E n \in DOMAIN nodes :
        LET r == nodes[n]
        IN  /\ r.State = StateCandidate /\ r.Term >= 2
            /\ r.electionElapsed + 1 >= r.currentElectionTimeout
            /\ tick(r, 0).Term = r.Term + 1
            /\ \E m \in Calls(n) :
                  m.Term > r.Term /\ Step(r, m, 0).Term = m.Term

(* C13: append idempotence: when a node has accepted an AppendEntries m of *)
(* its term or a later one (it is then Follower in m's term), processing m *)
(* again leaves its log unchanged and queues a response identical to the   *)
(* first one.                                                              *)
C13_AppendIdempotent ==
    \A n \in DOMAIN nodes : \A m \in Inbound :
        LET r == nodes[n]
            r1 == Step(r, m, 0)
            r2 == Step([r1 EXCEPT !.msgs = <<>>], m, 0)
        IN  (/\ m.MsgType = MsgAppend /\ m.To = n
             /\ m.Term >= r.Term
             /\ Len(r1.msgs) = 1 /\ ~r1.msgs[1].Reject)
            => /\ r1.State = StateFollower
               /\ r2.entries = r1.entries
               /\ r2.msgs = r1.msgs

(* C14: a Propose processed by a Follower or a Candidate is reported to    *)
(* the caller as ErrProposalDropped, appends nothing to the log, changes   *)
(* neither term nor committed, and queues no message.                      *)
C14_ProposalDropped ==
    \A n \in DOMAIN nodes : \A d \in Data :
        LET r == nodes[n]
            r2 == Step(r, ProposeMsg(n, d), 0)
        IN  r.State \in {StateFollower, StateCandidate}
            => /\ StepReturn(r, ProposeMsg(n, d), 0) = ErrProposalDropped
               /\ r2.entries = r.entries
               /\ r2.Term = r.Term
               /\ r2.committed = r.committed
               /\ r2.msgs = <<>>

(* C17: a node enters the Leader role only from Candidate, on a           *)
(* RequestVoteResponse of its own term that grants, when the voters that   *)
(* granted, with itself, are more than half of the voters; a grant of      *)
(* another term, or one that reaches a Follower or a Leader, changes       *)
(* neither the role nor the log; tick alone makes no Leader where there    *)
(* are other voters.                                                       *)
C17_LeaderByMajority ==
    \A n \in DOMAIN nodes : \A rnd \in Rnd :
        LET r == nodes[n]
        IN  /\ \A m \in Inbound :
                  LET r2 == Step(r, m, rnd)
                  IN  m.To = n
                      => /\ (r.State # StateLeader /\ r2.State = StateLeader)
                              => /\ r.State = StateCandidate
                                 /\ m.MsgType = MsgRequestVoteResponse
                                 /\ ~m.Reject
                                 /\ m.Term = r.Term
                                 /\ 2 * Cardinality(r.votes \cup {r.id, m.From})
                                      > Cardinality(DOMAIN r.Prs)
                         /\ (/\ m.MsgType = MsgRequestVoteResponse
                             /\ ~m.Reject
                             /\ m.Term <= r.Term
                             /\ (m.Term < r.Term \/ r.State # StateCandidate))
                              => /\ r2.State = r.State
                                 /\ r2.entries = r.entries
            /\ (r.State # StateLeader /\ Cardinality(DOMAIN r.Prs) > 1)
                  => tick(r, rnd).State # StateLeader

(* Whether the log that RequestVote m describes is at least as up to date *)
(* as the log of r: (LogTerm, Index) compared in that order.               *)
UpToDate(r, m) ==
    LET index == LastIndex(r)
        logTerm == RaftLogTerm(r, index)
    IN  m.LogTerm > logTerm \/ (m.LogTerm = logTerm /\ m.Index >= index)

(* C18 as stated: a RequestVote is granted only if the requester's log is  *)
(* at least as up to date as the receiver's; otherwise the response is a   *)
(* rejection and the receiver's vote is unchanged.                         *)
C18_GrantNeedsUpToDateLogAsStated ==
    \A n \in DOMAIN nodes : \A m \in Inbound : \A rnd \in Rnd :
        LET r == nodes[n]
            r2 == Step(r, m, rnd)
        IN  (m.MsgType = MsgRequestVote /\ m.To = n)
            => /\ Grants(r2) => UpToDate(r, m)
               /\ ~UpToDate(r, m)
                    => /\ Len(r2.msgs) = 1
                       /\ r2.msgs[1].MsgType = MsgRequestVoteResponse
                       /\ r2.msgs[1].To = m.From
                       /\ r2.msgs[1].Reject
                       /\ r2.Vote = r.Vote

(* C18, amended: the same, except that the vote of a receiver whose term   *)
(* is below the term of the RequestVote is cleared (None) with the change  *)
(* of term; it is unchanged otherwise, and in no case given to the         *)
(* requester.                                                              *)
C18_GrantNeedsUpToDateLog ==
    \A n \in DOMAIN nodes : \A m \in Inbound : \A rnd \in Rnd :
        LET r == nodes[n]
            r2 == Step(r, m, rnd)
        IN  (m.MsgType = MsgRequestVote /\ m.To = n)
            => /\ Grants(r2) => UpToDate(r, m)
               /\ ~UpToDate(r, m)
                    => /\ Len(r2.msgs) = 1
                       /\ r2.msgs[1].MsgType = MsgRequestVoteResponse
                       /\ r2.msgs[1].To = m.From
                       /\ r2.msgs[1].Reject
                       /\ r2.Vote = IF m.Term > r.Term THEN None ELSE r.Vote

(* C18, witness: a node with entries in its log and a vote, for which one  *)
(* RequestVote of a higher term is rejected for its log and another is     *)
(* granted.                                                                *)
C18_Witness ==
    \E n \in DOMAIN nodes :
        LET r == nodes[n]
        IN  /\ LastIndex(r) >= 1 /\ r.Vote # None
            /\ \E m \in Inbound :
                  /\ m.MsgType = MsgRequestVote /\ m.To = n
                  /\ m.Term > r.Term /\ ~UpToDate(r, m)
                  /\ ~Grants(Step(r, m, 0))
                  /\ Step(r, m, 0).Vote = None
            /\ \E m \in Inbound :
                  /\ m.MsgType = MsgRequestVote /\ m.To = n
                  /\ UpToDate(r, m) /\ Grants(Step(r, m, 0))

(* C19: log well-formedness: in every reachable state the entries of a    *)
(* node's log carry the indices 1, 2, ..., lastIndex in that order, and    *)
(* the terms of the entries do not decrease along the log.                 *)
C19_LogWellFormed ==
    \A n \in DOMAIN nodes :
        LET log == nodes[n].entries
        IN  /\ \A i \in DOMAIN log : log[i].Index = i
            /\ \A i \in DOMAIN log, j \in DOMAIN log :
                  i <= j => log[i].Term <= log[j].Term

(* C20: match only moves forward: a call that leaves a Leader in the       *)
(* Leader role of the same term lowers the match of no peer.               *)
C20_MatchForward ==
    [][\A n \in DOMAIN nodes :
          (/\ nodes[n].State = StateLeader /\ nodes'[n].State = StateLeader
           /\ nodes'[n].Term = nodes[n].Term)
          => \A p \in DOMAIN nodes[n].Prs :
                nodes'[n].Prs[p].Match >= nodes[n].Prs[p].Match]_vars

(* The node after k consecutive calls of tick *)
RECURSIVE TickN(_, _, _)
TickN(r, k, rnd) == IF k = 0 THEN r ELSE TickN(tick(r, rnd), k - 1, rnd)

(* The RequestVote that r, having become Candidate, sends to p *)
VoteRequest(r, p) ==
    [Message(MsgRequestVote, p, r.id, r.Term) EXCEPT
       !.Index = LastIndex(r),
       !.LogTerm = RaftLogTerm(r, LastIndex(r))]

(* C22: election timeout: the deadline d of a Follower or Candidate lies   *)
(* in electionTimeout .. 2 * electionTimeout - 1 and is not yet reached;   *)
(* with no message processed, the ticks before the d-th since the timer's  *)
(* reset only count, and the d-th makes the node Candidate with its term   *)
(* increased by exactly 1 and electionElapsed 0, and queues one            *)
(* RequestVote of the new term with its last index and last term for every *)
(* peer but itself; the tick of a Leader starts no election.               *)
C22_ElectionTimeout ==
    \A n \in DOMAIN nodes : \A rnd \in Rnd :
        LET r == nodes[n]
            d == r.currentElectionTimeout
            e == r.electionElapsed
            c == TickN(r, d - e, rnd)
            t == tick(r, rnd)
        IN  /\ r.State # StateLeader
                  => /\ r.electionTimeout <= d /\ d < 2 * r.electionTimeout
                     /\ e < d
                     /\ \A k \in 1..(d - e - 1) :
                           TickN(r, k, rnd) = [r EXCEPT !.electionElapsed = e + k]
                     /\ c.State = StateCandidate
                     /\ c.Term = r.Term + 1
                     /\ c.electionElapsed = 0
                     /\ c.entries = r.entries
                     /\ Len(c.msgs) = Cardinality(DOMAIN r.Prs) - 1
                     /\ \A p \in DOMAIN r.Prs \ {r.id} :
                           \E i \in DOMAIN c.msgs : c.msgs[i] = VoteRequest(c, p)
            /\ r.State = StateLeader
                  => /\ t.State # StateCandidate
                     /\ t.Term = r.Term
                     /\ \A i \in DOMAIN t.msgs :
                           t.msgs[i].MsgType # MsgRequestVote

(* C22, witness: a node with entries in its log that has just timed out   *)
(* and stands for election in a term above 1: it is Candidate with its own *)
(* vote alone and its timer reset.                                         *)
C22_Witness ==
    \E n \in DOMAIN nodes :
        LET r == nodes[n]
        IN  /\ r.State = StateCandidate
            /\ r.Term >= 2
            /\ LastIndex(r) >= 1
            /\ r.electionElapsed = 0
            /\ r.votes = {r.id}

-----------------------------------------------------------------------------
(* Properties of one node with restarts (SpecRestart)                      *)

(* C15: restart preserves term and vote: the node constructed again from   *)
(* a storage that holds term T and vote V starts with term T and vote V;   *)
(* so it does not grant, in term T, a candidate other than V.              *)
C15_RestartKeepsTermVote ==
    \A n \in DOMAIN nodes : \A rnd \in Rnd :
        LET r == nodes[n]
            r2 == Restarted(r, rnd)
        IN  /\ r2.Term = r.Term
            /\ r2.Vote = r.Vote
            /\ \A m \in Inbound :
                  (/\ m.MsgType = MsgRequestVote /\ m.To = n
                   /\ m.Term = r.Term
                   /\ r.Vote \notin {None, m.From})
                  => ~Grants(Step(r2, m, rnd))

-----------------------------------------------------------------------------
(* Properties of the cluster of one voter (SpecSingle)                     *)

(* C12: single-node immediate commit: in a cluster of one voter, a Propose *)
(* processed by the Leader appends the entry and leaves committed equal to *)
(* the last log index within that call, with nothing queued for the        *)
(* network; and the call that makes the node Leader appends the no-op of   *)
(* its term and leaves it committed.                                       *)
C12_SingleNodeCommit ==
    \A n \in DOMAIN nodes : \A rnd \in Rnd :
        LET r == nodes[n]
            t == tick(r, rnd)
        IN  Cardinality(DOMAIN r.Prs) = 1
            => /\ r.State = StateLeader
                    => \A d \in Data :
                          LET r2 == Step(r, ProposeMsg(n, d), rnd)
                          IN  /\ LastIndex(r2) = LastIndex(r) + 1
                              /\ r2.entries[LastIndex(r2)].Data = d
                              /\ r2.committed = LastIndex(r2)
                              /\ r2.msgs = <<>>
               /\ (r.State # StateLeader /\ t.State = StateLeader)
                    => /\ LastIndex(t) = LastIndex(r) + 1
                       /\ t.entries[LastIndex(t)]
                            = Entry(t.Term, LastIndex(t), NoData)
                       /\ t.committed = LastIndex(t)
                       /\ t.msgs = <<>>

(* C12, witness: the Leader of the cluster of one voter after a proposal:  *)
(* its last entry carries a payload and is committed.                      *)
C12_Witness ==
    \E n \in DOMAIN nodes :
        LET r == nodes[n]
        IN  /\ Cardinality(DOMAIN r.Prs) = 1
            /\ r.State = StateLeader
            /\ LastIndex(r) >= 2
            /\ r.entries[LastIndex(r)].Data # NoData
            /\ r.committed = LastIndex(r)

-----------------------------------------------------------------------------
(* Properties of replication under one Leader (SpecRepl)                   *)

(* C21: replication makes progress: once every message the nodes queued    *)
(* has been delivered, every entry the Leader appended through the         *)
(* client's Propose is committed on the Leader.                            *)
C21_ReplicationProgress ==
    (network = EmptyBag /\ nodes[1].State = StateLeader)
    => \A i \in DOMAIN nodes[1].entries :
          nodes[1].entries[i].Data # NoData => nodes[1].committed >= i

====
